---------------------------- MODULE Spec2Model ----------------------------
(***************************************************************************)
(* Model of the WTime Home Assistant integration (custom_components/wtime). *)
(*                                                                         *)
(* Part 1: time, timezone rules and aware datetimes, as the code uses them  *)
(*         through datetime / zoneinfo (wall-clock arithmetic, fold).       *)
(* Part 2: the DST transition locator of binary_sensor.py                   *)
(*         (_find_transition_forward / _find_transition_backward).          *)
(* Part 3: WTimeDSTBinarySensor: lifecycle, time ticks, _recalc_and_write.  *)
(* Part 4: the two searches run statement by statement.                     *)
(* Part 5: the auto-purger of __init__.py.                                  *)
(* Part 6: the time subscriptions of the entities of both platforms.        *)
(***************************************************************************)
EXTENDS Integers, Sequences, FiniteSets, TLC

VARIABLES
    tz,          \* dt_util.DEFAULT_TIME_ZONE: the name of the zone rule set
    clock,       \* the platform clock, an absolute (UTC) instant in ticks
    phase,       \* entity lifecycle: "new", "added", "removed"
    attr_is_on,  \* WTimeDSTBinarySensor._attr_is_on
    attrs,       \* WTimeDSTBinarySensor._attrs (<<>> is the empty dict)
    unsub_time,  \* WTimeDSTBinarySensor._unsub_time (FALSE is None)
    calc_now,    \* history: the local `now` of the latest _recalc_and_write
    pc,          \* locator harness: "idle", "input", "fwd", "bwd", "rt"
    q_start,     \* locator harness: the start instant handed to a search
    q_max_days,  \* locator harness: the max_days handed to a search
    q_result,    \* locator harness: what the search returned
    q_back,      \* locator harness: the backward search run after a forward one
    search,      \* a search run statement by statement: its position, locals
                 \* and the offset evaluations made so far
    entry_state,      \* the config entry: "not_loaded", "loaded", "unloading",
                      \* "failed_unload"
    options,          \* entry.options, read with the defaults of const.py
    applied,          \* history: the options read by the latest
                      \* _start_or_stop_autopurger
    bucket,           \* hass.data[DOMAIN][entry_id], None when absent
    timers,           \* the platform's live interval timers of _purge_tick
    update_listeners, \* how many update listeners the entry has registered
    tasks,            \* _purge_tick calls created and not yet run
    last_request,     \* history: the latest recorder.purge_entities request
    e_phase,     \* per entity: "new", "added", "removed"
    e_unsub,     \* per entity: the unsubscribe handles it keeps
    subs,        \* the platform's live time subscriptions
    last_write   \* history: the latest callback run and the phase it ran in

vars == <<tz, clock, phase, attr_is_on, attrs, unsub_time, calc_now,
          pc, q_start, q_max_days, q_result, q_back, search,
          entry_state, options, applied, bucket, timers, update_listeners,
          tasks, last_request, e_phase, e_unsub, subs, last_write>>

purgerVars == <<entry_state, options, applied, bucket, timers,
                update_listeners, tasks, last_request>>
entityVars == <<e_phase, e_unsub, subs, last_write>>

sensorVars == <<phase, attr_is_on, attrs, unsub_time, calc_now>>
locatorVars == <<pc, q_start, q_max_days, q_result, q_back>>

-----------------------------------------------------------------------------
(* Part 1. Time.  An instant or a duration is a whole number of ticks; the   *)
(* tick stands for datetime's resolution (one microsecond in Python).        *)

TicksPerSecond == 2

Second == TicksPerSecond
Minute == 60 * Second
Hour   == 60 * Minute
Day    == 24 * Hour

\* Python's None, and an optional value: <<>> or <<v>>.
None == <<>>
Some(v) == <<v>>
Val(o) == o[1]

Max(a, b) == IF a >= b THEN a ELSE b
Min(a, b) == IF a <= b THEN a ELSE b

\* timedelta / 2: true division, rounded half-to-even to the resolution.
HalfDelta(w) ==
    LET half == w \div 2
    IN  IF w % 2 = 0 THEN half
        ELSE IF half % 2 = 0 THEN half ELSE half + 1

\* An aware datetime in the default zone: wall-clock ticks and the fold bit.
DT(w, f) == [wall |-> w, fold |-> f]

\* datetime + timedelta: wall-clock arithmetic; the result has fold = 0.
PlusDelta(dt, d) == DT(dt.wall + d, 0)

\* datetime.replace(microsecond=0): the fold is kept.
ReplaceMicrosecond0(dt) == DT(dt.wall - (dt.wall % Second), dt.fold)

\* datetime.replace(second=0, microsecond=0).
ReplaceSecond0(dt) == DT(dt.wall - (dt.wall % Minute), dt.fold)

\* datetime.second (the wall epoch is a midnight).
SecondOf(dt) == (dt.wall % Minute) \div Second

\* datetime.microsecond, in ticks.
SubSecondOf(dt) == dt.wall % Second

-----------------------------------------------------------------------------
(* Timezone rule sets: the offset in force before the first transition, and *)
(* the transitions in order, each with the absolute instant it happens at   *)
(* and the total UTC offset and DST component in force from then on.        *)

TT(off, d) == [utcoff |-> off, dst |-> d]
Tr(t, off, d) == [at |-> t, utcoff |-> off, dst |-> d]

Year == 364 * Day

\* A fixed-offset zone (no DST, as America/Phoenix).
ZoneFixed == [init |-> TT(-7 * Hour, 0), trans |-> <<>>]

\* A northern zone with negative offsets (as America/New_York): forward at
\* 02:00 standard time, back at 02:00 daylight time, three seasons.
ZoneUS ==
    [init |-> TT(-5 * Hour, 0),
     trans |-> << Tr(67 * Day + 7 * Hour, -4 * Hour, Hour),
                  Tr(305 * Day + 6 * Hour, -5 * Hour, 0),
                  Tr(Year + 67 * Day + 7 * Hour, -4 * Hour, Hour),
                  Tr(Year + 305 * Day + 6 * Hour, -5 * Hour, 0),
                  Tr(2 * Year + 67 * Day + 7 * Hour, -4 * Hour, Hour),
                  Tr(2 * Year + 305 * Day + 6 * Hour, -5 * Hour, 0) >>]

\* A zone with positive offsets whose transitions happen at 01:00 UTC
\* (as Europe/Berlin), two seasons.
ZoneEU ==
    [init |-> TT(Hour, 0),
     trans |-> << Tr(Year + 88 * Day + Hour, 2 * Hour, Hour),
                  Tr(Year + 298 * Day + Hour, Hour, 0),
                  Tr(2 * Year + 88 * Day + Hour, 2 * Hour, Hour),
                  Tr(2 * Year + 298 * Day + Hour, Hour, 0) >>]

\* A zone whose standard offset moves while DST stays on (as Asia/Tbilisi
\* on 2004-06-27: +05 daylight -> +04 daylight), inside one season.
ZoneShift ==
    [init |-> TT(4 * Hour, 0),
     trans |-> << Tr(Year + 80 * Day - 4 * Hour, 5 * Hour, Hour),
                  Tr(Year + 170 * Day - 5 * Hour, 4 * Hour, Hour),
                  Tr(Year + 290 * Day - 4 * Hour, 3 * Hour, 0) >>]

\* A zone leaving local mean time (as America/New_York in 1883, LMT
\* -4:56:02 -> -5:00): the wall-clock discontinuity is not on a minute.
ZoneLMT ==
    [init |-> TT(-(4 * Hour + 56 * Minute + 2 * Second), 0),
     trans |-> << Tr(Year + 100 * Day + 17 * Hour, -5 * Hour, 0) >>]

\* A zone whose rules keep a DST component in force with no change at all
\* (a zone fixed on summer time).
ZoneAlways == [init |-> TT(3 * Hour, Hour), trans |-> <<>>]

\* A zone that enters DST long before the instants looked at, leaves it
\* once and then returns to it for good.  (Before its first transition a
\* zone is on its standard time.)
ZoneStays ==
    [init |-> TT(Hour, 0),
     trans |-> << Tr(-(100 * Day) - Hour, 2 * Hour, Hour),
                  Tr(Year + 120 * Day - Hour, Hour, 0),
                  Tr(Year + 250 * Day - Hour, 2 * Hour, Hour) >>]

ZoneNames == {"Fixed", "US", "EU", "Shift", "LMT", "Always", "Stays"}

Zone(name) ==
    CASE name = "Fixed" -> ZoneFixed
      [] name = "US"    -> ZoneUS
      [] name = "EU"    -> ZoneEU
      [] name = "Shift" -> ZoneShift
      [] name = "LMT"   -> ZoneLMT
      [] name = "Always" -> ZoneAlways
      [] name = "Stays" -> ZoneStays

NumTrans(z) == Len(z.trans)

\* The ttinfo in force after the first i transitions.
TTAfter(z, i) == IF i = 0 THEN z.init ELSE TT(z.trans[i].utcoff, z.trans[i].dst)

\* zoneinfo's local transition lists: transition i seen on the wall clock,
\* for fold = 0 (the larger of the two offsets) and fold = 1 (the smaller).
TransWall(z, i, fold) ==
    LET before == TTAfter(z, i - 1).utcoff
        after  == TTAfter(z, i).utcoff
    IN  z.trans[i].at + (IF fold = 0 THEN Max(before, after) ELSE Min(before, after))

\* zoneinfo `_find_trans`: bisect_right of the whole-second local timestamp.
FindTrans(z, dt) ==
    LET ts == dt.wall - (dt.wall % Second)
    IN  TTAfter(z, Cardinality({i \in 1..NumTrans(z) : TransWall(z, i, dt.fold) <= ts}))

\* The number of transitions at or before an absolute instant.
TransIndexUtc(z, u) ==
    Cardinality({i \in 1..NumTrans(z) : z.trans[i].at <= u - (u % Second)})

\* The offset and the DST component in force at an absolute instant.
OffsetAtUtc(z, u) == TTAfter(z, TransIndexUtc(z, u)).utcoff
DstAtUtc(z, u) == TTAfter(z, TransIndexUtc(z, u)).dst

\* tzinfo.fromutc: the aware local datetime of an absolute instant; fold = 1
\* in the repeated wall-clock interval after an offset decrease.
FromUtc(z, u) ==
    LET idx == TransIndexUtc(z, u)
        tti == TTAfter(z, idx)
        ts  == u - (u % Second)
        fold == IF idx = 0 THEN 0
                ELSE IF TTAfter(z, idx - 1).utcoff - tti.utcoff > ts - z.trans[idx].at
                     THEN 1 ELSE 0
    IN  DT(u + tti.utcoff, fold)

\* The absolute instant an aware datetime denotes (wall clock minus offset).
ToUtc(z, dt) == dt.wall - FindTrans(z, dt).utcoff

-----------------------------------------------------------------------------
(* Part 2. The transition locator (binary_sensor.py).                       *)

DefaultMaxDays == 400
HourRefineSteps == 24

\* _offset(ts): ts.utcoffset() (never None for an aware datetime).
Offset(z, dt) == FindTrans(z, dt).utcoff

\* A variant of IsDst that tests the whole UTC offset, not its DST part.
IsDstByUtcOffset(z, dt) == FindTrans(z, dt).utcoff # 0

\* _is_dst(ts): ts.dst() is not None and is not zero.
IsDst(z, dt) == FindTrans(z, dt).dst # 0

\* The passes of a coarse day scan, in loop order: the first pass k in
\* lo..hi whose cursor start + k * step has an offset other than base_off,
\* or 0 when no pass has.  (The loop is split in halves so that its
\* evaluation nests logarithmically; the passes are visited in order.)
RECURSIVE FirstPass(_, _, _, _, _, _)
FirstPass(z, start, base_off, step, lo, hi) ==
    IF lo > hi THEN 0
    ELSE IF lo = hi
         THEN (IF Offset(z, PlusDelta(start, lo * step)) # base_off THEN lo ELSE 0)
         ELSE LET mid == (lo + hi) \div 2
                  first == FirstPass(z, start, base_off, step, lo, mid)
              IN  IF first # 0 THEN first
                  ELSE FirstPass(z, start, base_off, step, mid + 1, hi)

\* The coarse day scan of _find_transition_forward: `for _ in
\* range(max_days)` adding a day per pass; the cursor at the break, or None
\* when the loop runs out (for-else).
DayScanForward(z, start, base_off, max_days) ==
    LET k == FirstPass(z, start, base_off, Day, 1, max_days)
    IN  IF k = 0 THEN None ELSE Some(PlusDelta(start, k * Day))

\* A variant of StepForward that narrows the way the backward search does.
StepForwardLikeBackward(z, base_off, b) ==
    LET mid == PlusDelta(b.low, HalfDelta(b.high.wall - b.low.wall))
    IN  IF Offset(z, mid) = base_off THEN [low |-> b.low, high |-> mid]
        ELSE [low |-> mid, high |-> b.high]

\* One bisection step of the forward refinement.
StepForward(z, base_off, b) ==
    LET mid == PlusDelta(b.low, HalfDelta(b.high.wall - b.low.wall))
    IN  IF Offset(z, mid) = base_off THEN [low |-> mid, high |-> b.high]
        ELSE [low |-> b.low, high |-> mid]

\* The hour refine: at most `n` more steps, leaving once the bracket is at
\* most one hour wide (the test follows the step).
RECURSIVE HourRefineForward(_, _, _, _)
HourRefineForward(z, base_off, b, n) ==
    IF n <= 0 THEN b
    ELSE LET nb == StepForward(z, base_off, b)
         IN  IF nb.high.wall - nb.low.wall <= Hour THEN nb
             ELSE HourRefineForward(z, base_off, nb, n - 1)

\* The minute and the second refine: while the bracket is wider than `limit`.
RECURSIVE WhileRefineForward(_, _, _, _)
WhileRefineForward(z, base_off, b, limit) ==
    IF b.high.wall - b.low.wall > limit
    THEN WhileRefineForward(z, base_off, StepForward(z, base_off, b), limit)
    ELSE b

\* The bracket the three tiers of the forward refinement end with.
RefineForward(z, base_off, day_cursor) ==
    LET b0 == [low |-> PlusDelta(day_cursor, -Day), high |-> day_cursor]
        b1 == HourRefineForward(z, base_off, b0, HourRefineSteps)
        b2 == WhileRefineForward(z, base_off, b1, Minute)
    IN  WhileRefineForward(z, base_off, b2, Second)

\* A variant of NormalizeToMinute that leaves out the move to the minute.
NormalizeToSecond(dt) == ReplaceMicrosecond0(dt)

\* The closing normalisation of both searches: drop the sub-second part,
\* and move to the next minute boundary unless already on one.
NormalizeToMinute(dt) ==
    LET change == ReplaceMicrosecond0(dt)
    IN  IF SecondOf(change) # 0 THEN ReplaceSecond0(PlusDelta(change, Minute))
        ELSE change

\* _find_transition_forward(start, max_days).
FindTransitionForward(z, start, max_days) ==
    LET base_off == Offset(z, start)
        found == DayScanForward(z, start, base_off, max_days)
    IN  IF found = None THEN None
        ELSE Some(NormalizeToMinute(RefineForward(z, base_off, Val(found)).high))

\* The coarse day scan of _find_transition_backward (a day back per pass).
DayScanBackward(z, start, base_off, max_days) ==
    LET k == FirstPass(z, start, base_off, -Day, 1, max_days)
    IN  IF k = 0 THEN None ELSE Some(PlusDelta(start, -(k * Day)))

\* A variant of StepBackward that narrows the way the forward search does.
StepBackwardLikeForward(z, base_off, b) ==
    LET mid == PlusDelta(b.low, HalfDelta(b.high.wall - b.low.wall))
    IN  IF Offset(z, mid) = base_off THEN [low |-> mid, high |-> b.high]
        ELSE [low |-> b.low, high |-> mid]

\* One bisection step of the backward refinement (the bracket is inverted).
StepBackward(z, base_off, b) ==
    LET mid == PlusDelta(b.low, HalfDelta(b.high.wall - b.low.wall))
    IN  IF Offset(z, mid) = base_off THEN [low |-> b.low, high |-> mid]
        ELSE [low |-> mid, high |-> b.high]

\* The three while loops of the backward refinement.
RECURSIVE WhileRefineBackward(_, _, _, _)
WhileRefineBackward(z, base_off, b, limit) ==
    IF b.high.wall - b.low.wall > limit
    THEN WhileRefineBackward(z, base_off, StepBackward(z, base_off, b), limit)
    ELSE b

RefineBackward(z, base_off, day_cursor) ==
    LET b0 == [low |-> day_cursor, high |-> PlusDelta(day_cursor, Day)]
        b1 == WhileRefineBackward(z, base_off, b0, Hour)
        b2 == WhileRefineBackward(z, base_off, b1, Minute)
    IN  WhileRefineBackward(z, base_off, b2, Second)

\* _find_transition_backward(start, max_days).
FindTransitionBackward(z, start, max_days) ==
    LET base_off == Offset(z, start)
        found == DayScanBackward(z, start, base_off, max_days)
    IN  IF found = None THEN None
        ELSE Some(NormalizeToMinute(RefineBackward(z, base_off, Val(found)).low))

-----------------------------------------------------------------------------
(* The locator as a pure function: the initial states draw a zone, a start  *)
(* instant and a horizon; the actions apply the searches to them.           *)

\* Start instants relative to a transition of the zone, in ticks.
StartDeltas ==
    { -3 * Day, -Day - Hour, -Day + 30 * Minute, -12 * Hour, -30 * Minute - 1, -1,
      0, 1, 3 * Minute + 58 * Second + 1, 30 * Minute, Hour - 30 * Second, Hour,
      12 * Hour + 7 * Second + 1, Day, Day + 30 * Minute, 3 * Day, 100 * Day }

\* Start instants that do not depend on the zone's transitions.
StartAnchors == { Year + 12 * Hour, Year + 200 * Day + 5 * Minute + 1 }

StartInstants(z) ==
    StartAnchors \cup { z.trans[i].at + d : i \in 1..NumTrans(z), d \in StartDeltas }

\* The horizons tried: none, the shortest, a short one and the default.
MaxDaysChoices == { 0, 1, 3, DefaultMaxDays }

\* How long after a found transition the reverse search is started.
RoundTripDeltas == { 0, 1, 30 * Minute, Hour, Day - Minute, Day, 2 * Day, 3 * Day, 100 * Day }

\* const.py: the defaults of the auto-purge options.
DEFAULT_AUTOPURGE_ENTITY_IDS ==
    << "sensor.wtime_12hr_clock", "sensor.wtime_12hr_clock_with_seconds",
       "sensor.wtime_24hr_clock", "sensor.wtime_24hr_clock_with_seconds" >>
DEFAULT_AUTOPURGE_INTERVAL == 60

\* entry.options as _start_or_stop_autopurger reads it when no option has
\* been stored.
DefaultOptions ==
    [enabled |-> TRUE, entity_ids |-> DEFAULT_AUTOPURGE_ENTITY_IDS,
     interval |-> DEFAULT_AUTOPURGE_INTERVAL]

\* The config entry before its first setup.
PurgerAtRest ==
    /\ entry_state = "not_loaded"
    /\ options = DefaultOptions
    /\ applied = None
    /\ bucket = None
    /\ timers = {}
    /\ update_listeners = 0
    /\ tasks = {}
    /\ last_request = None

\* The entities of the two platforms: the three binary sensors of
\* binary_sensor.py and a WtimeSensor for each value of its alignment.
Entities == {"dst", "weekday", "weekend", "wtime", "wtime_minute", "wtime_second"}

\* __init__ of the entities: no handle is held.
NoHandles == [timer |-> None, once |-> None]

\* The entities as constructed, before they are added.
EntitiesAtRest ==
    /\ e_phase = [e \in Entities |-> "new"]
    /\ e_unsub = [e \in Entities |-> NoHandles]
    /\ subs = {}
    /\ last_write = None

\* No search is being run statement by statement.
NoSearch ==
    [pc |-> "off", dir |-> "none", base_off |-> 0, day_cursor |-> DT(0, 0),
     low |-> DT(0, 0), high |-> DT(0, 0), iter |-> 0, coarse |-> 0, bisect |-> 0,
     wprev |-> 0, ret |-> None]

NewSensor ==
    /\ phase = "new"
    /\ attr_is_on = FALSE
    /\ attrs = <<>>
    /\ unsub_time = FALSE
    /\ calc_now = None

InitLocator ==
    /\ tz \in ZoneNames
    /\ clock \in StartInstants(Zone(tz))
    /\ NewSensor
    /\ pc = "input"
    /\ q_start = FromUtc(Zone(tz), clock)
    /\ q_max_days \in MaxDaysChoices
    /\ q_result = None
    /\ q_back = None
    /\ search = NoSearch
    /\ PurgerAtRest
    /\ EntitiesAtRest

\* _find_transition_forward(q_start, q_max_days)
SearchForward ==
    /\ pc = "input"
    /\ pc' = "fwd"
    /\ q_result' = FindTransitionForward(Zone(tz), q_start, q_max_days)
    /\ UNCHANGED <<tz, clock, sensorVars, q_start, q_max_days, q_back, search, purgerVars, entityVars>>

\* _find_transition_backward(q_start, q_max_days)
SearchBackward ==
    /\ pc = "input"
    /\ pc' = "bwd"
    /\ q_result' = FindTransitionBackward(Zone(tz), q_start, q_max_days)
    /\ UNCHANGED <<tz, clock, sensorVars, q_start, q_max_days, q_back, search, purgerVars, entityVars>>

\* _find_transition_backward started at, or some time after, the instant a
\* forward search has returned.
SearchBackAfter ==
    /\ pc = "fwd"
    /\ q_result # None
    /\ \E d \in RoundTripDeltas :
        LET s == FromUtc(Zone(tz), ToUtc(Zone(tz), Val(q_result)) + d)
        IN  q_back' = Some([start |-> s,
                            result |-> FindTransitionBackward(Zone(tz), s, q_max_days)])
    /\ pc' = "rt"
    /\ UNCHANGED <<tz, clock, sensorVars, q_start, q_max_days, q_result, search, purgerVars, entityVars>>

NextLocator == SearchForward \/ SearchBackward \/ SearchBackAfter

SpecLocator == InitLocator /\ [][NextLocator]_vars

-----------------------------------------------------------------------------
(* Part 3. WTimeDSTBinarySensor (binary_sensor.py).                         *)

TickEveryMinutes == 5

\* _now_local(): dt_util.now(), the aware local datetime of the clock.
NowLocal(z, u) == FromUtc(z, u)

\* A variant of SerializeDt that maps None to an empty text.
SerializeDtEmptyForNone(z, ts) ==
    IF ts = None THEN Some("")
    ELSE Some([minute |-> Val(ts).wall \div Minute, utcoff |-> Offset(z, Val(ts))])

\* _serialize_dt: None stays None; otherwise the local ISO text to the
\* minute with the UTC offset, e.g. 2025-11-02T01:59-04:00, held as the
\* wall-clock minute and the offset printed after it.
SerializeDt(z, ts) ==
    IF ts = None THEN None
    ELSE Some([minute |-> Val(ts).wall \div Minute, utcoff |-> Offset(z, Val(ts))])

\* A variant of StateAfter that samples one minute before ts.
StateAfterSampledBefore(z, ts) ==
    IF ts = None THEN None ELSE Some(IsDst(z, PlusDelta(Val(ts), -Minute)))

\* _state_after(ts): DST one minute after ts, None for None.
StateAfter(z, ts) ==
    IF ts = None THEN None ELSE Some(IsDst(z, PlusDelta(Val(ts), Minute)))

\* _state_before(ts): DST one minute before ts, None for None.
StateBefore(z, ts) ==
    IF ts = None THEN None ELSE Some(IsDst(z, PlusDelta(Val(ts), -Minute)))

\* `_find_transition_forward(x + timedelta(minutes=1))` guarded by x being
\* found: the next transition past an optional instant, None for None.
ForwardPast(z, ts) ==
    IF ts = None THEN None
    ELSE FindTransitionForward(z, PlusDelta(Val(ts), Minute), DefaultMaxDays)

\* `_find_transition_backward(x - timedelta(minutes=1))` guarded likewise.
BackwardBefore(z, ts) ==
    IF ts = None THEN None
    ELSE FindTransitionBackward(z, PlusDelta(Val(ts), -Minute), DefaultMaxDays)

\* The four season markers, with next_end the transition past next_start.
Markers(z, season_start, season_end, next_start) ==
    [season_start |-> season_start, season_end |-> season_end,
     next_start |-> next_start, next_end |-> ForwardPast(z, next_start)]

\* A variant of MarkersInDst that takes the next change for next_start, as
\* the standard-time branch does, instead of searching past season_end.
MarkersInDstNoSearchPastEnd(z, prev_change, next_change) ==
    Markers(z, prev_change, next_change, next_change)

\* The `if is_dst_now:` branch: season_start is prev_change on both paths
\* of its inner if, season_end is next_change and next_start is searched
\* past season_end.
MarkersInDst(z, prev_change, next_change) ==
    Markers(z, prev_change, next_change, ForwardPast(z, next_change))

\* The season_end of the `else:` branch: the previous change if DST was on
\* before it.
LastSeasonEnd(prev_change, prev_is_dst) ==
    IF prev_change # None /\ prev_is_dst = Some(TRUE) THEN prev_change ELSE None

\* The `else:` branch, given its season_end: next_start is next_change if it
\* turns DST on; season_start is searched before season_end.
MarkersAfterSeason(z, season_end, next_change, next_is_dst) ==
    Markers(z, BackwardBefore(z, season_end), season_end,
            IF next_is_dst = Some(TRUE) THEN next_change ELSE None)

\* The `else:` branch: the season markers while standard time is active.
MarkersInStandard(z, prev_change, next_change, prev_is_dst, next_is_dst) ==
    MarkersAfterSeason(z, LastSeasonEnd(prev_change, prev_is_dst), next_change,
                       next_is_dst)

\* The "next_state" attribute.
NextStateLabel(next_is_dst) ==
    IF next_is_dst = Some(TRUE) THEN Some("on")
    ELSE IF next_is_dst = Some(FALSE) THEN Some("off") ELSE None

\* The dict assigned to _attrs.
AttrsDict(name, is_dst_now, m, next_change, next_is_dst) ==
    [dst_in_effect |-> is_dst_now,
     timezone      |-> name,
     season_start  |-> SerializeDt(Zone(name), m.season_start),
     season_end    |-> SerializeDt(Zone(name), m.season_end),
     next_start    |-> SerializeDt(Zone(name), m.next_start),
     next_end      |-> SerializeDt(Zone(name), m.next_end),
     next_change   |-> SerializeDt(Zone(name), next_change),
     next_state    |-> NextStateLabel(next_is_dst)]

\* _recalc_and_write once is_dst_now and the two searches around now are
\* known: the season markers by branch, then the attributes.
RecalcFrom(name, is_dst_now, prev_change, next_change, prev_is_dst, next_is_dst) ==
    [is_on |-> is_dst_now,
     attrs |-> AttrsDict(name, is_dst_now,
                         IF is_dst_now
                         THEN MarkersInDst(Zone(name), prev_change, next_change)
                         ELSE MarkersInStandard(Zone(name), prev_change, next_change,
                                                prev_is_dst, next_is_dst),
                         next_change, next_is_dst)]

\* _recalc_and_write around the two searches: the sides of the boundaries.
RecalcAround(name, is_dst_now, prev_change, next_change) ==
    RecalcFrom(name, is_dst_now, prev_change, next_change,
               StateBefore(Zone(name), prev_change), StateAfter(Zone(name), next_change))

\* _recalc_and_write with `now` the local time read from the clock: the
\* values it assigns to _attr_is_on and _attrs.
Recalc(name, now) ==
    RecalcAround(name, IsDst(Zone(name), now),
                 FindTransitionBackward(Zone(name), now, DefaultMaxDays),
                 FindTransitionForward(Zone(name), now, DefaultMaxDays))

\* The instants the sensor can be added at (any instant, also off the second).
AddInstants(z) == StartInstants(z)

\* Offsets, from a transition, of the five-minute wall-clock marks looked at.
TickDeltas ==
    { -Day, -Hour, -5 * Minute, 0, 5 * Minute, 30 * Minute, 55 * Minute, Hour,
      Hour + 5 * Minute, Day, 50 * Day }

\* The instants async_track_time_change(second=0, minute=range(0, 60, 5))
\* fires at: the local second is 0 and the local minute a multiple of five.
TickMarks(z) ==
    { u \in { z.trans[i].at + d : i \in 1..NumTrans(z), d \in TickDeltas }
             \cup { Year + 10 * Day, Year + 10 * Day + 5 * Minute } :
        FromUtc(z, u).wall % (TickEveryMinutes * Minute) = 0 }

\* How long after the mark the callback reads the clock, in ticks.
TickLatencies == { 0, 1 }

\* The first mark after an instant, if any.
NextMark(z, u) ==
    LET later == { m \in TickMarks(z) : m > u }
    IN  IF later = {} THEN None
        ELSE Some(CHOOSE m \in later : \A o \in later : m <= o)

Init ==
    /\ tz \in ZoneNames
    /\ clock \in AddInstants(Zone(tz))
    /\ NewSensor
    /\ pc = "idle"
    /\ q_start = DT(0, 0)
    /\ q_max_days = DefaultMaxDays
    /\ q_result = None
    /\ q_back = None
    /\ search = NoSearch
    /\ PurgerAtRest
    /\ EntitiesAtRest

\* A variant of RecalcAndWrite that keeps the value an attribute had when
\* the new value is absent.
RecalcAndWriteKeepingFound(now, r) ==
    /\ attr_is_on' = r.is_on
    /\ attrs' = IF phase = "new" THEN r.attrs
                ELSE [r.attrs EXCEPT
                         !.season_start = IF @ = None THEN attrs.season_start ELSE @,
                         !.season_end = IF @ = None THEN attrs.season_end ELSE @,
                         !.next_start = IF @ = None THEN attrs.next_start ELSE @,
                         !.next_end = IF @ = None THEN attrs.next_end ELSE @,
                         !.next_change = IF @ = None THEN attrs.next_change ELSE @,
                         !.next_state = IF @ = None THEN attrs.next_state ELSE @]
    /\ calc_now' = Some(now)

\* _recalc_and_write at the local time `now`: the assignments to
\* _attr_is_on and _attrs (async_write_ha_state publishes them).
RecalcAndWrite(now, r) ==
    /\ attr_is_on' = r.is_on
    /\ attrs' = r.attrs
    /\ calc_now' = Some(now)

\* async_added_to_hass: recalculate at once, then subscribe to the marks.
AddedToHass ==
    /\ phase = "new"
    /\ RecalcAndWrite(NowLocal(Zone(tz), clock), Recalc(tz, NowLocal(Zone(tz), clock)))
    /\ unsub_time' = TRUE
    /\ phase' = "added"
    /\ UNCHANGED <<tz, clock, locatorVars, search, purgerVars, entityVars>>

\* _handle_time_tick: the platform reaches the next mark while the
\* subscription stands and the callback recalculates.
HandleTimeTick ==
    /\ unsub_time = TRUE
    /\ NextMark(Zone(tz), clock) # None
    /\ \E late \in TickLatencies :
        /\ clock' = Val(NextMark(Zone(tz), clock)) + late
        /\ RecalcAndWrite(NowLocal(Zone(tz), clock'), Recalc(tz, NowLocal(Zone(tz), clock')))
    /\ UNCHANGED <<tz, phase, unsub_time, locatorVars, search, purgerVars, entityVars>>

\* async_will_remove_from_hass: cancel the subscription.
WillRemoveFromHass ==
    /\ phase = "added"
    /\ unsub_time' = FALSE
    /\ phase' = "removed"
    /\ UNCHANGED <<tz, clock, attr_is_on, attrs, calc_now, locatorVars, search, purgerVars, entityVars>>

Next == AddedToHass \/ HandleTimeTick \/ WillRemoveFromHass

Spec == Init /\ [][Next]_vars

-----------------------------------------------------------------------------
(* Part 4. The two searches run statement by statement: one action per pass *)
(* of a loop, counting the offset evaluations of the coarse day scan and of *)
(* the bisection.  The zone, the start and the horizon are drawn by the     *)
(* initial states.                                                          *)

\* The width of a bracket, high - low.
Width(b) == b.high.wall - b.low.wall

\* The bracket [low, high) of the search being run.
Bracket == [low |-> search.low, high |-> search.high]

\* A variant of DayPassesLeft that admits one pass more.
DayPassesLeftInclusive(iter, max_days) == iter <= max_days

\* `for _ in range(max_days)`: another pass is made after `iter` passes.
DayPassesLeft(iter, max_days) == iter < max_days

InitSearch ==
    /\ tz \in ZoneNames
    /\ clock \in StartInstants(Zone(tz))
    /\ NewSensor
    /\ pc = "idle"
    /\ q_start = FromUtc(Zone(tz), clock)
    /\ q_max_days \in MaxDaysChoices
    /\ q_result = None
    /\ q_back = None
    /\ search = [NoSearch EXCEPT !.pc = "call"]
    /\ PurgerAtRest
    /\ EntitiesAtRest

\* The search leaves its variables with a new value of `search`.
SearchBecomes(s) ==
    /\ search' = s
    /\ UNCHANGED <<tz, clock, sensorVars, locatorVars, purgerVars, entityVars>>

\* _find_transition_forward is entered: base_off = _offset(start) and
\* day_cursor = start.
CallForward ==
    /\ search.pc = "call"
    /\ SearchBecomes([search EXCEPT !.pc = "day", !.dir = "fwd",
                                    !.base_off = Offset(Zone(tz), q_start),
                                    !.day_cursor = q_start])

\* One pass of the forward day scan: a day is added, the offset compared,
\* and on a difference the loop is left with the bracket set up.
ForwardDayPass ==
    /\ search.pc = "day" /\ search.dir = "fwd"
    /\ DayPassesLeft(search.iter, q_max_days)
    /\ LET cursor == PlusDelta(search.day_cursor, Day)
       IN  SearchBecomes(
               IF Offset(Zone(tz), cursor) # search.base_off
               THEN [search EXCEPT !.day_cursor = cursor, !.coarse = @ + 1,
                                   !.iter = 0, !.pc = "hour",
                                   !.low = PlusDelta(cursor, -Day), !.high = cursor,
                                   !.wprev = Day]
               ELSE [search EXCEPT !.day_cursor = cursor, !.coarse = @ + 1,
                                   !.iter = @ + 1])

\* The forward day scan runs out: `else: return None`.
ForwardNotFound ==
    /\ search.pc = "day" /\ search.dir = "fwd"
    /\ ~DayPassesLeft(search.iter, q_max_days)
    /\ SearchBecomes([search EXCEPT !.pc = "done", !.ret = None])

\* The bracket after one bisection step, with the step counted.
AfterStep(b, next_pc) ==
    [search EXCEPT !.low = b.low, !.high = b.high, !.bisect = @ + 1,
                   !.wprev = Width(Bracket), !.iter = @ + 1, !.pc = next_pc]

\* One pass of the forward hour refine (`for _ in range(24)`), left once
\* the bracket is at most an hour wide.
ForwardHourStep ==
    /\ search.pc = "hour" /\ search.dir = "fwd"
    /\ LET b == StepForward(Zone(tz), search.base_off, Bracket)
       IN  SearchBecomes(AfterStep(b, IF Width(b) <= Hour
                                         \/ search.iter + 1 >= HourRefineSteps
                                      THEN "refine" ELSE "hour"))

\* One pass of the forward minute refine.
ForwardMinuteStep ==
    /\ search.pc = "refine" /\ search.dir = "fwd"
    /\ Width(Bracket) > Minute
    /\ SearchBecomes(AfterStep(StepForward(Zone(tz), search.base_off, Bracket), "refine"))

\* One pass of the forward second refine.
ForwardSecondStep ==
    /\ search.pc = "refine" /\ search.dir = "fwd"
    /\ Width(Bracket) <= Minute /\ Width(Bracket) > Second
    /\ SearchBecomes(AfterStep(StepForward(Zone(tz), search.base_off, Bracket), "refine"))

\* The forward search returns the normalised upper bound.
ForwardReturn ==
    /\ search.pc = "refine" /\ search.dir = "fwd"
    /\ Width(Bracket) <= Second
    /\ SearchBecomes([search EXCEPT !.pc = "done",
                                    !.ret = Some(NormalizeToMinute(search.high))])

\* _find_transition_backward is entered.
CallBackward ==
    /\ search.pc = "call"
    /\ SearchBecomes([search EXCEPT !.pc = "day", !.dir = "bwd",
                                    !.base_off = Offset(Zone(tz), q_start),
                                    !.day_cursor = q_start])

\* One pass of the backward day scan.
BackwardDayPass ==
    /\ search.pc = "day" /\ search.dir = "bwd"
    /\ DayPassesLeft(search.iter, q_max_days)
    /\ LET cursor == PlusDelta(search.day_cursor, -Day)
       IN  SearchBecomes(
               IF Offset(Zone(tz), cursor) # search.base_off
               THEN [search EXCEPT !.day_cursor = cursor, !.coarse = @ + 1,
                                   !.iter = 0, !.pc = "refine",
                                   !.low = cursor, !.high = PlusDelta(cursor, Day),
                                   !.wprev = Day]
               ELSE [search EXCEPT !.day_cursor = cursor, !.coarse = @ + 1,
                                   !.iter = @ + 1])

\* The backward day scan runs out: `else: return None`.
BackwardNotFound ==
    /\ search.pc = "day" /\ search.dir = "bwd"
    /\ ~DayPassesLeft(search.iter, q_max_days)
    /\ SearchBecomes([search EXCEPT !.pc = "done", !.ret = None])

\* One pass of the first while loop of the backward refine (to an hour).
BackwardHourStep ==
    /\ search.pc = "refine" /\ search.dir = "bwd"
    /\ Width(Bracket) > Hour
    /\ SearchBecomes(AfterStep(StepBackward(Zone(tz), search.base_off, Bracket), "refine"))

\* One pass of the second while loop (to a minute).
BackwardMinuteStep ==
    /\ search.pc = "refine" /\ search.dir = "bwd"
    /\ Width(Bracket) <= Hour /\ Width(Bracket) > Minute
    /\ SearchBecomes(AfterStep(StepBackward(Zone(tz), search.base_off, Bracket), "refine"))

\* One pass of the third while loop (to a second).
BackwardSecondStep ==
    /\ search.pc = "refine" /\ search.dir = "bwd"
    /\ Width(Bracket) <= Minute /\ Width(Bracket) > Second
    /\ SearchBecomes(AfterStep(StepBackward(Zone(tz), search.base_off, Bracket), "refine"))

\* The backward search returns the normalised lower bound.
BackwardReturn ==
    /\ search.pc = "refine" /\ search.dir = "bwd"
    /\ Width(Bracket) <= Second
    /\ SearchBecomes([search EXCEPT !.pc = "done",
                                    !.ret = Some(NormalizeToMinute(search.low))])

NextSearch ==
    \/ CallForward \/ ForwardDayPass \/ ForwardNotFound \/ ForwardHourStep
    \/ ForwardMinuteStep \/ ForwardSecondStep \/ ForwardReturn
    \/ CallBackward \/ BackwardDayPass \/ BackwardNotFound \/ BackwardHourStep
    \/ BackwardMinuteStep \/ BackwardSecondStep \/ BackwardReturn

\* The code is straight-line and synchronous: a search that has a next
\* statement executes it.
SpecSearch == InitSearch /\ [][NextSearch]_vars /\ WF_vars(NextSearch)

-----------------------------------------------------------------------------
(* Part 5. The auto-purger of __init__.py: entry setup, options updates,    *)
(* entry unload, the interval timer and the _purge_tick calls it and the   *)
(* purger's start create.                                                   *)

\* `interval_s < 15`: the smallest interval the purger runs with.
MinInterval == 15

\* The most interval timers the platform holds at once.
MaxTimers == 2
TimerIds == 1 .. MaxTimers

\* The option values stored in an entry.
EntityIdChoices == { <<>>, << "sensor.wtime_24hr_clock" >>, DEFAULT_AUTOPURGE_ENTITY_IDS }
IntervalChoices == { MinInterval - 1, MinInterval, DEFAULT_AUTOPURGE_INTERVAL }
OptionChoices ==
    [enabled : BOOLEAN, entity_ids : EntityIdChoices, interval : IntervalChoices]

\* `if not enabled or not entity_ids or interval_s < 15: return`, negated.
Eligible(o) == o.enabled /\ o.entity_ids # <<>> /\ ~(o.interval < MinInterval)

\* _get_entry_bucket: the bucket of the entry, created when absent.
GetEntryBucket(bk) ==
    IF bk = None THEN [purge_unsub |-> None, update_unsub |-> FALSE] ELSE Val(bk)

\* Calling the unsubscribe handle of an interval timer, if one is held.
Cancelled(ts, h) == IF h = None THEN ts ELSE { t \in ts : t.id # Val(h) }

\* The timer ids the platform has free.
FreeIds(ts) == { i \in TimerIds : \A t \in ts : t.id # i }

\* A variant of StartOrStopAutopurger that leaves the existing schedule
\* running.
StartOrStopAutopurgerKeepingTimer(bk, ts, tk, opts) ==
    LET b == GetEntryBucket(bk)
        id == CHOOSE i \in FreeIds(ts) : \A j \in FreeIds(ts) : i <= j
    IN  IF Eligible(opts)
        THEN [bucket |-> [b EXCEPT !.purge_unsub = Some(id)],
              timers |-> ts \cup {[id |-> id, entity_ids |-> opts.entity_ids]},
              tasks |-> tk \cup {[entity_ids |-> opts.entity_ids, origin |-> "once"]}]
        ELSE [bucket |-> [b EXCEPT !.purge_unsub = None],
              timers |-> ts, tasks |-> tk]

\* _start_or_stop_autopurger: the existing schedule is cancelled; with
\* eligible options a new interval timer is created, its handle stored in the
\* bucket, and one _purge_tick call is created as a task.  The timer and the
\* task carry the entity list read from the options.
StartOrStopAutopurger(bk, ts, tk, opts) ==
    LET b == GetEntryBucket(bk)
        stopped == Cancelled(ts, b.purge_unsub)
        id == CHOOSE i \in FreeIds(stopped) : \A j \in FreeIds(stopped) : i <= j
    IN  IF Eligible(opts)
        THEN [bucket |-> [b EXCEPT !.purge_unsub = Some(id)],
              timers |-> stopped \cup {[id |-> id, entity_ids |-> opts.entity_ids]},
              tasks |-> tk \cup {[entity_ids |-> opts.entity_ids, origin |-> "once"]}]
        ELSE [bucket |-> [b EXCEPT !.purge_unsub = None],
              timers |-> stopped, tasks |-> tk]

\* The variables outside the auto-purger.
PurgerOnly == UNCHANGED <<tz, clock, sensorVars, locatorVars, search, entityVars>>

InitPurger ==
    /\ tz = "Fixed"
    /\ clock = 0
    /\ NewSensor
    /\ pc = "idle"
    /\ q_start = DT(0, 0)
    /\ q_max_days = DefaultMaxDays
    /\ q_result = None
    /\ q_back = None
    /\ search = NoSearch
    /\ entry_state = "not_loaded"
    /\ options \in OptionChoices
    /\ applied = None
    /\ bucket = None
    /\ timers = {}
    /\ update_listeners = 0
    /\ tasks = {}
    /\ last_request = None
    /\ EntitiesAtRest

\* async_setup_entry from the bucket on: the purger is started or stopped by
\* the options, then the options listener is registered and its handle
\* stored.
SetupEntry ==
    /\ entry_state = "not_loaded"
    /\ FreeIds(timers) # {}
    /\ LET r == StartOrStopAutopurger(bucket, timers, tasks, options)
       IN  /\ bucket' = Some([r.bucket EXCEPT !.update_unsub = TRUE])
           /\ timers' = r.timers
           /\ tasks' = r.tasks
    /\ applied' = Some(options)
    /\ update_listeners' = update_listeners + 1
    /\ entry_state' = "loaded"
    /\ UNCHANGED <<options, last_request>>
    /\ PurgerOnly

\* The options flow stores new options; a registered _options_updated runs
\* _start_or_stop_autopurger on the updated entry.
UpdateOptions(o) ==
    /\ o # options
    /\ options' = o
    /\ IF update_listeners > 0
       THEN /\ FreeIds(timers) # {}
            /\ LET r == StartOrStopAutopurger(bucket, timers, tasks, o)
               IN  /\ bucket' = Some(r.bucket)
                   /\ timers' = r.timers
                   /\ tasks' = r.tasks
            /\ applied' = Some(o)
       ELSE UNCHANGED <<bucket, timers, tasks, applied>>
    /\ UNCHANGED <<entry_state, update_listeners, last_request>>
    /\ PurgerOnly

\* async_unload_entry up to its await: the timer and the options listener
\* are cancelled and their handles cleared.
UnloadBegin ==
    /\ entry_state = "loaded"
    /\ LET b == GetEntryBucket(bucket)
       IN  /\ timers' = Cancelled(timers, b.purge_unsub)
           /\ update_listeners' =
                  IF b.update_unsub THEN update_listeners - 1 ELSE update_listeners
           /\ bucket' = Some([purge_unsub |-> None, update_unsub |-> FALSE])
    /\ entry_state' = "unloading"
    /\ UNCHANGED <<options, applied, tasks, last_request>>
    /\ PurgerOnly

\* async_unload_entry after async_unload_platforms returned `ok`: the bucket
\* is popped and `ok` returned.
UnloadFinish(ok) ==
    /\ entry_state = "unloading"
    /\ bucket' = None
    /\ entry_state' = IF ok THEN "not_loaded" ELSE "failed_unload"
    /\ UNCHANGED <<options, applied, timers, update_listeners, tasks, last_request>>
    /\ PurgerOnly

\* A live interval timer fires: the platform creates a call of its
\* _purge_tick.
TimerFires(t) ==
    /\ t \in timers
    /\ tasks' = tasks \cup {[entity_ids |-> t.entity_ids, origin |-> "timer"]}
    /\ UNCHANGED <<entry_state, options, applied, bucket, timers,
                   update_listeners, last_request>>
    /\ PurgerOnly

\* The purger holds a timer handle.
PurgerRunning == bucket # None /\ Val(bucket).purge_unsub # None

\* A created _purge_tick call runs: without the recorder service it returns,
\* otherwise it requests recorder.purge_entities for the entity list it was
\* created with.
PurgeTick(k, has_service) ==
    /\ k \in tasks
    /\ tasks' = tasks \ {k}
    /\ last_request' =
           IF has_service
           THEN Some([entity_ids |-> k.entity_ids,
                      origin |-> k.origin,
                      running |-> PurgerRunning,
                      current |-> applied # None
                                  /\ Val(applied).entity_ids = k.entity_ids])
           ELSE last_request
    /\ UNCHANGED <<entry_state, options, applied, bucket, timers, update_listeners>>
    /\ PurgerOnly

NextPurger ==
    \/ SetupEntry
    \/ \E o \in OptionChoices : UpdateOptions(o)
    \/ UnloadBegin
    \/ \E ok \in BOOLEAN : UnloadFinish(ok)
    \/ \E t \in timers : TimerFires(t)
    \/ \E k \in tasks, has_service \in BOOLEAN : PurgeTick(k, has_service)

SpecPurger == InitPurger /\ [][NextPurger]_vars

-----------------------------------------------------------------------------
(* Part 6. The time subscriptions of the entities (binary_sensor.py and     *)
(* sensor.py): what each entity subscribes to when it is added, which       *)
(* handles it keeps, and what it cancels when it is removed.  All the       *)
(* callbacks are @callback functions, run by the platform when the          *)
(* subscription fires.                                                      *)

\* WtimeSensor._align of the three WtimeSensor entities.
Align(e) ==
    CASE e = "wtime_minute" -> "minute"
      [] e = "wtime_second" -> "second"
      [] OTHER -> "none"

\* A subscription made for an entity: async_track_time_change,
\* async_track_time_interval or async_call_later.
Sub(e, how) == [owner |-> e, how |-> how]

\* Calling an unsubscribe handle, if one is held.
Unsubscribed(ss, h) == IF h = None THEN ss ELSE ss \ {Val(h)}

\* async_write_ha_state, called from `how` for entity e.
WriteState(e, how) ==
    last_write' = Some([entity |-> e, how |-> how,
                        removed |-> e_phase[e] = "removed"])

\* The variables outside the entities' subscriptions.
EntitiesOnly == UNCHANGED <<tz, clock, sensorVars, locatorVars, search, purgerVars>>

InitEntities ==
    /\ tz = "Fixed"
    /\ clock = 0
    /\ NewSensor
    /\ pc = "idle"
    /\ q_start = DT(0, 0)
    /\ q_max_days = DefaultMaxDays
    /\ q_result = None
    /\ q_back = None
    /\ search = NoSearch
    /\ PurgerAtRest
    /\ EntitiesAtRest

\* async_added_to_hass.  The DST sensor keeps the handle of its time-change
\* subscription; the Weekday and Weekend sensors drop it; a WtimeSensor keeps
\* the handle of its one-shot (aligned) or of its interval (not aligned).
EntityAdded(e) ==
    /\ e_phase[e] = "new"
    /\ e_phase' = [e_phase EXCEPT ![e] = "added"]
    /\ WriteState(e, "added")
    /\ CASE e = "dst" ->
              /\ subs' = subs \cup {Sub(e, "time_change")}
              /\ e_unsub' = [e_unsub EXCEPT ![e].timer = Some(Sub(e, "time_change"))]
         [] e \in {"weekday", "weekend"} ->
              /\ subs' = subs \cup {Sub(e, "time_change")}
              /\ UNCHANGED e_unsub
         [] OTHER ->
              IF Align(e) \in {"minute", "second"}
              THEN /\ subs' = subs \cup {Sub(e, "once")}
                   /\ e_unsub' = [e_unsub EXCEPT ![e].once = Some(Sub(e, "once"))]
              ELSE /\ subs' = subs \cup {Sub(e, "interval")}
                   /\ e_unsub' = [e_unsub EXCEPT ![e].timer = Some(Sub(e, "interval"))]
    /\ EntitiesOnly

\* async_will_remove_from_hass.  The DST sensor and a WtimeSensor call and
\* clear the handles they hold; the Weekday and Weekend sensors define no
\* such method.
EntityRemoved(e) ==
    /\ e_phase[e] = "added"
    /\ e_phase' = [e_phase EXCEPT ![e] = "removed"]
    /\ IF e \in {"weekday", "weekend"}
       THEN UNCHANGED <<subs, e_unsub>>
       ELSE /\ subs' = Unsubscribed(Unsubscribed(subs, e_unsub[e].once),
                                    e_unsub[e].timer)
            /\ e_unsub' = [e_unsub EXCEPT ![e] = NoHandles]
    /\ UNCHANGED last_write
    /\ EntitiesOnly

\* A live subscription fires.  _handle_time_tick, _tick and
\* _async_timer_tick write the state; _start_interval_after_align writes the
\* state, starts the interval and clears the handle of the one-shot, which
\* the platform has dropped on firing it.
SubscriptionFires(s) ==
    /\ s \in subs
    /\ WriteState(s.owner, s.how)
    /\ IF s.how = "once"
       THEN /\ subs' = (subs \ {s}) \cup {Sub(s.owner, "interval")}
            /\ e_unsub' = [e_unsub EXCEPT
                              ![s.owner] = [timer |-> Some(Sub(s.owner, "interval")),
                                            once |-> None]]
       ELSE UNCHANGED <<subs, e_unsub>>
    /\ UNCHANGED e_phase
    /\ EntitiesOnly

NextEntities ==
    \/ \E e \in Entities : EntityAdded(e)
    \/ \E e \in Entities : EntityRemoved(e)
    \/ \E s \in subs : SubscriptionFires(s)

SpecEntities == InitEntities /\ [][NextEntities]_vars

-----------------------------------------------------------------------------
(* Properties of the locator, checked under SpecLocator.  Instants are      *)
(* absolute: an aware datetime stands for wall clock minus its offset.      *)

\* The absolute instants of the zone's offset changes.
TransitionInstants(z) == { z.trans[i].at : i \in 1..NumTrans(z) }

\* The absolute instant of the harness's start, and the offset there.
StartUtc == clock
BaseAtStart == OffsetAtUtc(Zone(tz), clock)

\* C1: whenever the forward search returns r, r is the earliest instant
\* strictly after start at which the offset differs from the offset at
\* start, to the minute: the offset differs nowhere in (start, r - 1 min),
\* and one minute after r it is the post-change offset.
C1_ForwardFindsEarliestChange ==
    (pc = "fwd" /\ q_result # None) =>
        LET z == Zone(tz)
            r == ToUtc(z, Val(q_result))
        IN  /\ r > StartUtc
            /\ \A t \in TransitionInstants(z) :
                   (StartUtc < t /\ t < r - Minute) => OffsetAtUtc(z, t) = BaseAtStart
            /\ OffsetAtUtc(z, r + Minute) # BaseAtStart

\* C2: whenever the backward search returns r, r is the most recent instant
\* before start at which the offset last changed: the offset equals the
\* offset at start everywhere from r up to start, and differs from it just
\* before r (one minute before r, r being resolved to the minute).
C2_BackwardFindsLastChange ==
    (pc = "bwd" /\ q_result # None) =>
        LET z == Zone(tz)
            r == ToUtc(z, Val(q_result))
        IN  /\ r <= StartUtc
            /\ OffsetAtUtc(z, r) = BaseAtStart
            /\ \A t \in TransitionInstants(z) : ~(r < t /\ t <= StartUtc)
            /\ OffsetAtUtc(z, r - Minute) # BaseAtStart

\* The first offset change after an absolute instant, if any.
FollowingChange(z, u) ==
    LET later == { t \in TransitionInstants(z) : t > u }
    IN  IF later = {} THEN None ELSE Some(CHOOSE t \in later : \A o \in later : t <= o)

\* The reverse search of a round trip is one the claim C3 speaks of: it
\* starts at r, or strictly after r, before the following offset change and
\* less than max_days days after r.
RoundTripInScope ==
    LET z == Zone(tz)
        r == ToUtc(z, Val(q_result))
        s == ToUtc(z, Val(q_back).start)
        following == FollowingChange(z, r)
    IN  \/ s = r
        \/ /\ s > r
           /\ following # None => s < Val(following)
           /\ s - r < q_max_days * Day

ChangeAhead ==
    \E t \in TransitionInstants(Zone(tz)) :
        StartUtc < t /\ t < StartUtc + q_max_days * Day

\* An offset change lies within max_days days before the start (the start
\* itself counts; max_days = 0 leaves no room for any).
ChangeBehind ==
    \E t \in TransitionInstants(Zone(tz)) :
        StartUtc - q_max_days * Day < t /\ t <= StartUtc

\* C4: a search reports not-found (None) exactly when no offset change lies
\* within max_days of start in the searched direction.
C4_NotFoundIffNoChange ==
    /\ pc = "fwd" => (q_result = None <=> ~ChangeAhead)
    /\ pc = "bwd" => (q_result = None <=> ~ChangeBehind)

\* C5: every instant a search returns has zero seconds and no sub-second
\* part.
C5_MinuteRounded ==
    /\ (pc \in {"fwd", "bwd", "rt"} /\ q_result # None) =>
           SecondOf(Val(q_result)) = 0 /\ SubSecondOf(Val(q_result)) = 0
    /\ (pc = "rt" /\ Val(q_back).result # None) =>
           /\ SecondOf(Val(Val(q_back).result)) = 0
           /\ SubSecondOf(Val(Val(q_back).result)) = 0

\* C5 witness: a backward search has returned an instant that is not the
\* bound its refinement ended with (the bound was off the minute).
C5_Witness ==
    /\ pc = "bwd"
    /\ q_result # None
    /\ LET z == Zone(tz)
           base_off == Offset(z, q_start)
           cursor == Val(DayScanBackward(z, q_start, base_off, q_max_days))
       IN  RefineBackward(z, base_off, cursor).low # Val(q_result)

-----------------------------------------------------------------------------
(* Properties of the published DstState, checked under Spec.                *)

\* A recalculation has published a state.
Published == phase # "new"

\* The absolute instant a published timestamp (local minute and UTC offset)
\* denotes.
PublishedUtc(p) == Val(p).minute * Minute - Val(p).utcoff

\* DST `d` after (before, for d < 0) a published timestamp, sampled the way
\* the code samples it: _is_dst(ts + timedelta) on the local datetime.
DstNear(p, d) ==
    IsDst(Zone(tz), PlusDelta(FromUtc(Zone(tz), PublishedUtc(p)), d))

\* The published timestamp turns DST on: off a minute before, on a minute after.
TurnsDstOn(p) == DstNear(p, Minute) /\ ~DstNear(p, -Minute)

\* The published timestamp turns DST off: on a minute before, off a minute after.
TurnsDstOff(p) == DstNear(p, -Minute) /\ ~DstNear(p, Minute)

\* C6: in every published state with DST active, season_start (if present)
\* has DST on one minute after it and off one minute before it, and
\* season_end (if present) has DST on one minute before it and off one
\* minute after it, for every zone rule set.
C6_SeasonBoundsToggleDst ==
    (Published /\ attrs.dst_in_effect) =>
        /\ attrs.season_start # None => TurnsDstOn(attrs.season_start)
        /\ attrs.season_end # None => TurnsDstOff(attrs.season_end)

\* C7: after every recalculation the published state and the attribute
\* dst_in_effect both equal the DST predicate at that recalculation's now:
\* the DST component in force at that instant is not zero.
C7_IsDstNowIsPredicateAtNow ==
    Published =>
        /\ attr_is_on = (DstAtUtc(Zone(tz), clock) # 0)
        /\ attrs.dst_in_effect = attr_is_on

\* C7 witness: a recalculation inside a repeated wall-clock hour (fold = 1)
\* has published DST as active.
C7_Witness ==
    /\ phase = "added"
    /\ attr_is_on
    /\ attrs.dst_in_effect
    /\ Val(calc_now).fold = 1
    /\ ToUtc(Zone(tz), Val(calc_now)) = clock

\* The searches a recalculation at calc_now runs first.
PrevFromNow == FindTransitionBackward(Zone(tz), Val(calc_now), DefaultMaxDays)
NextFromNow == FindTransitionForward(Zone(tz), Val(calc_now), DefaultMaxDays)

\* The forward search started one minute after an optional instant; None
\* for None.
NextAfter(ts) ==
    IF ts = None THEN None
    ELSE FindTransitionForward(Zone(tz), PlusDelta(Val(ts), Minute), DefaultMaxDays)

\* The backward search started one minute before an optional instant.
PrevBefore(ts) ==
    IF ts = None THEN None
    ELSE FindTransitionBackward(Zone(tz), PlusDelta(Val(ts), -Minute), DefaultMaxDays)

Ser(ts) == SerializeDt(Zone(tz), ts)

C9_MarkersWhileStandard ==
    (Published /\ ~attr_is_on) =>
        LET z == Zone(tz)
            turns_on == NextFromNow # None
                        /\ IsDst(z, PlusDelta(Val(NextFromNow), Minute))
            turned_off == PrevFromNow # None
                          /\ IsDst(z, PlusDelta(Val(PrevFromNow), -Minute))
            next_start == IF turns_on THEN NextFromNow ELSE None
            season_end == IF turned_off THEN PrevFromNow ELSE None
        IN  /\ attrs.next_start = Ser(next_start)
            /\ attrs.next_end = Ser(NextAfter(next_start))
            /\ attrs.season_end = Ser(season_end)
            /\ attrs.season_start = Ser(PrevBefore(season_end))

\* C9: the equalities above, so that season_start..season_end is the
\* previous completed DST season: season_end turned DST off and
\* season_start turned it on.
C9_PreviousSeasonWhileStandard ==
    /\ C9_MarkersWhileStandard
    /\ (Published /\ ~attr_is_on) =>
           /\ attrs.season_end # None => TurnsDstOff(attrs.season_end)
           /\ attrs.season_start # None => TurnsDstOn(attrs.season_start)

\* C10: next_change is the forward search from now whether or not DST is
\* active; next_state is "on" exactly when next_change is present and DST
\* is active one minute after it, "off" exactly when it is present and DST
\* is not active then, and absent exactly when next_change is absent.
C10_NextChangeAndState ==
    Published =>
        LET present == attrs.next_change # None
            dst_after == DstAtUtc(Zone(tz), PublishedUtc(attrs.next_change) + Minute) # 0
        IN  /\ attrs.next_change = Ser(NextFromNow)
            /\ attrs.next_state = Some("on") <=> (present /\ dst_after)
            /\ attrs.next_state = Some("off") <=> (present /\ ~dst_after)
            /\ attrs.next_state = None <=> ~present

\* C10 witness: DST is active and the next change keeps it on.
C10_Witness ==
    /\ Published
    /\ attr_is_on
    /\ attrs.next_change # None
    /\ attrs.next_state = Some("on")

\* The keys of the published attribute dict.
AttrKeys ==
    { "dst_in_effect", "timezone", "season_start", "season_end", "next_start",
      "next_end", "next_change", "next_state" }

\* The timestamp attributes.
TimestampKeys == { "season_start", "season_end", "next_start", "next_end", "next_change" }

\* A published timestamp attribute is the absent marker or one timestamp
\* text (a local minute with its offset), nothing else.
AbsentOrTimestamp(p) == p = None \/ (Len(p) = 1 /\ DOMAIN p[1] = {"minute", "utcoff"})

\* C11: whatever the previous and the next search return and whether or not
\* DST is active, the recalculation publishes a complete state: is_dst_now
\* is published, and every field that depends on a search that found
\* nothing is the absent marker None (never another value such as an empty
\* text).
C11_NotFoundPublishesAbsent ==
    Published =>
        /\ DOMAIN attrs = AttrKeys
        /\ attr_is_on \in BOOLEAN /\ attrs.dst_in_effect = attr_is_on
        /\ NextFromNow = None =>
               /\ attrs.next_change = None /\ attrs.next_state = None
               /\ attrs.next_start = None /\ attrs.next_end = None
               /\ attr_is_on => attrs.season_end = None
        /\ PrevFromNow = None =>
               /\ attrs.season_start = None
               /\ ~attr_is_on => attrs.season_end = None
        /\ (attr_is_on /\ NextAfter(NextFromNow) = None) =>
               attrs.next_start = None /\ attrs.next_end = None
        /\ (~attr_is_on /\ PrevBefore(PrevFromNow) = None) => attrs.season_start = None
        /\ \A k \in TimestampKeys : AbsentOrTimestamp(attrs[k])
        /\ attrs.next_state \in {None, Some("on"), Some("off")}

\* C11 witness: DST is active, the previous search has found a transition
\* and the next search has found none.
C11_Witness ==
    /\ Published
    /\ attr_is_on
    /\ PrevFromNow # None
    /\ NextFromNow = None
    /\ attrs.season_start # None
    /\ attrs.season_end = None

-----------------------------------------------------------------------------
(* Properties of a search run statement by statement, checked under         *)
(* SpecSearch.                                                              *)

\* The searches one recalculation at `now` runs: the two around now, and in
\* either branch one more for each of the two results it searches on from.
RecalcSearches(name, now) ==
    LET z == Zone(name)
        prev_change == FindTransitionBackward(z, now, DefaultMaxDays)
        next_change == FindTransitionForward(z, now, DefaultMaxDays)
        one(found) == IF found THEN 1 ELSE 0
    IN  2 + (IF IsDst(z, now)
             THEN one(next_change # None) + one(ForwardPast(z, next_change) # None)
             ELSE one(StateAfter(z, next_change) = Some(TRUE))
                  + one(LastSeasonEnd(prev_change, StateBefore(z, prev_change)) # None))

\* C12: a search makes at most max_days offset evaluations in its day scan
\* and at most 30 in its bisection, for every start, horizon and zone, and
\* it terminates; a recalculation runs at most four searches.
C12_SearchTerminatesWithinBudget ==
    /\ [](/\ search.coarse <= q_max_days
          /\ search.bisect <= 30
          /\ search.pc = "done" => RecalcSearches(tz, q_start) <= 4)
    /\ <>(search.pc = "done")

\* C12 witness: a search over the default horizon has returned a transition
\* after a long day scan and a full bisection, at an instant where a
\* recalculation runs four searches.
C12_Witness ==
    /\ search.pc = "done"
    /\ search.ret # None
    /\ q_max_days = DefaultMaxDays
    /\ search.coarse >= 100
    /\ search.bisect >= 15
    /\ RecalcSearches(tz, q_start) = 4

-----------------------------------------------------------------------------
(* Further properties of the published DstState, checked under Spec.        *)

\* C13: whatever ticks came before, the published state is the one a sensor
\* with no history publishes at the same now: it depends on now and the
\* zone only, every field is written anew, and a field whose search finds
\* nothing now is absent even if an earlier tick had found a value for it.
C13_StateDependsOnNowOnly ==
    Published =>
        LET now == NowLocal(Zone(tz), clock)
            fresh == Recalc(tz, now)
        IN  /\ calc_now = Some(now)
            /\ attr_is_on = fresh.is_on
            /\ attrs = fresh.attrs

\* C13 witness: a tick has published an absent next_change after an earlier
\* tick of the same sensor had published a found one.
C13_Witness ==
    /\ phase = "added"
    /\ clock \notin AddInstants(Zone(tz))
    /\ clock - 1 \in TickMarks(Zone(tz))
    /\ attrs.next_change = None
    /\ attrs.next_state = None
    /\ \E m \in TickMarks(Zone(tz)) :
           /\ m < clock - 1
           /\ \E a \in AddInstants(Zone(tz)) : a < m
           /\ Recalc(tz, NowLocal(Zone(tz), m)).attrs.next_change # None

-----------------------------------------------------------------------------
(* Properties of the refinement brackets, checked under SpecSearch.         *)

\* The search in direction `dir` has set up its bracket: it is in its
\* refinement, or has returned from it.
Refining(dir) ==
    /\ search.dir = dir
    /\ \/ search.pc \in {"hour", "refine"}
       \/ search.pc = "done" /\ search.ret # None

\* C14: from the start of the forward refinement and after every bisection
\* step of its three tiers, low < high, the offset at low is the base
\* offset captured at start (the comparisons never use another base) and
\* the offset at high differs from it; and no step widens the bracket.
C14_ForwardBracket ==
    Refining("fwd") =>
        /\ search.low.wall < search.high.wall
        /\ search.base_off = Offset(Zone(tz), q_start)
        /\ Offset(Zone(tz), search.low) = search.base_off
        /\ Offset(Zone(tz), search.high) # search.base_off
        /\ Width(Bracket) <= search.wprev

\* C14 witness: a forward search has gone through all three tiers and has
\* returned.
C14_Witness ==
    /\ Refining("fwd")
    /\ search.pc = "done"
    /\ search.bisect >= 15
    /\ Width(Bracket) <= Second
    /\ search.low # PlusDelta(search.day_cursor, -Day)
    /\ search.high # search.day_cursor

\* C15: from the start of the backward refinement and after every bisection
\* step of its three tiers, low < high, the offset at low differs from the
\* base offset captured at start and the offset at high equals it; so the
\* first upper bound, the day cursor plus one day, has the base offset
\* whatever the start.
C15_BackwardBracket ==
    Refining("bwd") =>
        /\ search.low.wall < search.high.wall
        /\ search.base_off = Offset(Zone(tz), q_start)
        /\ Offset(Zone(tz), search.low) # search.base_off
        /\ Offset(Zone(tz), search.high) = search.base_off

-----------------------------------------------------------------------------
(* Further properties of the locator, checked under SpecLocator.            *)

\* The last offset change at or before an absolute instant, if any.
LastChangeUpTo(z, u) ==
    LET earlier == { t \in TransitionInstants(z) : t <= u }
    IN  IF earlier = {} THEN None
        ELSE Some(CHOOSE t \in earlier : \A o \in earlier : o <= t)

\* C17: the instant the backward search returns for the offset change at T
\* (the last one up to start), on a minute boundary or not, is never
\* earlier than T and less than one minute after it: the first minute
\* boundary at or after the crossing.
C17_BackwardWithinMinuteAfterChange ==
    (pc = "bwd" /\ q_result # None) =>
        LET z == Zone(tz)
            r == ToUtc(z, Val(q_result))
            change == LastChangeUpTo(z, StartUtc)
        IN  /\ change # None
            /\ Val(change) <= r
            /\ r < Val(change) + Minute

-----------------------------------------------------------------------------
(* The order of the published timestamps, checked under Spec.               *)

\* Two published timestamps, if both are present, are in strict order.
Before(p, q) == (p # None /\ q # None) => PublishedUtc(p) < PublishedUtc(q)

\* A published timestamp, if present, is at or before (strictly after) the
\* instant of the recalculation.
NotAfterNow(p) == p # None => PublishedUtc(p) <= clock
AfterNow(p) == p # None => PublishedUtc(p) > clock

\* C18: in every published state the present timestamps are in
\* chronological order: next_change is after now and the previous
\* transition (season_start with DST active, season_end otherwise) is
\* not; season_start < season_end and next_start < next_end;
\* with DST active season_start <= now < season_end < next_start <
\* next_end, with DST not active season_start < season_end <= now <
\* next_start < next_end.
C18_TimestampsInOrder ==
    Published =>
        /\ AfterNow(attrs.next_change)
        /\ Before(attrs.season_start, attrs.season_end)
        /\ Before(attrs.next_start, attrs.next_end)
        /\ AfterNow(attrs.next_start)
        /\ AfterNow(attrs.next_end)
        /\ NotAfterNow(attrs.season_start)
        /\ Before(attrs.season_end, attrs.next_start)
        /\ Before(attrs.season_end, attrs.next_end)
        /\ IF attr_is_on THEN AfterNow(attrs.season_end)
           ELSE NotAfterNow(attrs.season_end)


-----------------------------------------------------------------------------
(* Properties of the auto-purger, checked under SpecPurger.                 *)

\* C16: at most one periodic purge timer is live for the entry, and it is
\* the one whose handle the bucket holds; a timer is live exactly when the
\* entry is loaded and the options applied last have autopurge enabled, a
\* non-empty entity list and an interval of at least 15 seconds; once the
\* entry is unloaded no purge timer and no options listener remains and
\* the bucket is gone.
C16_PurgerSchedule ==
    /\ Cardinality(timers) <= 1
    /\ \A t \in timers : PurgerRunning /\ Val(bucket).purge_unsub = Some(t.id)
    /\ (timers # {}) <=>
           (entry_state = "loaded" /\ applied # None /\ Eligible(Val(applied)))
    /\ entry_state \in {"not_loaded", "failed_unload"} =>
           (timers = {} /\ update_listeners = 0 /\ bucket = None)

\* The entry has been unloaded after the purger was started twice, with
\* different entity lists.
C16_Witness ==
    /\ entry_state = "not_loaded"
    /\ \E k1, k2 \in tasks :
           /\ k1.origin = "once" /\ k2.origin = "once"
           /\ k1.entity_ids # k2.entity_ids

\* C20: every recorder.purge_entities request is issued while the purger is
\* running, and with the entity list of the options applied last.
C20_NoPurgeAfterStop ==
    last_request # None =>
        (Val(last_request).running /\ Val(last_request).current)


-----------------------------------------------------------------------------
(* Properties of the entities' subscriptions, checked under SpecEntities.   *)

\* C19: once an entity has been removed, no time subscription made for it
\* is live, and no callback of it runs or writes state.
C19_NoCallbackAfterRemoval ==
    /\ \A s \in subs : e_phase[s.owner] # "removed"
    /\ last_write # None => ~Val(last_write).removed

=============================================================================
